---- MODULE Spec2Model ----
(***************************************************************************)
(* Model of the mini-judge script src/cmd_script.py: the evaluation engine *)
(* (evaluate_submission), the input strategies, the check strategies and   *)
(* the line comparison.                                                    *)
(*                                                                         *)
(* The file system is modelled by the files the script touches:            *)
(*   - per test-case directory: the input fixture, the expected-output     *)
(*     fixture and the captured-output file output.user.out;               *)
(*   - in the working directory: a file under the input fixture's name, a  *)
(*     file named output.user.out, the checker, and the other files.       *)
(* os.rename has its POSIX meaning: an existing destination is replaced.   *)
(* A spawned submission writes to its standard output only.                *)
(* Test-case directories are named by their position in os.listdir's       *)
(* result, so the enumeration order is 1, 2, ..., NumCases.                *)
(***************************************************************************)
EXTENDS Integers, Sequences, FiniteSets, TLC

\* Number of test-case directories under test_cases/.
NumCases == 2
\* Longest file content, in characters, of the line-compare specification.
MaxLen == 3

Cases == 1..NumCases

VARIABLES
    ext,            \* extension of the submission file
    input_strat,    \* parsed_args.input_strat
    check_strat,    \* parsed_args.check_strat
    checkerPresent, \* whether cwd/<checker_name> is a file
    tcInput,        \* tcInput[d]: the input fixture of directory d
    tcExpected,     \* tcExpected[d]: the expected-output fixture of directory d
    tcUserOut,      \* tcUserOut[d]: output.user.out in directory d
    cwdInput,       \* cwd/<input_filename>
    cwdUserOut,     \* cwd/output.user.out
    cwdInOwner,     \* the case that staged cwdInput (0: it was there before the run)
    cwdOutOwner,    \* the case that created cwdUserOut (0: before the run)
    cwdFiles,       \* names of the other files of the working directory
    pc,             \* position of the script
    idx,            \* the directory the loop of evaluate_submission is at
    verdict_list,   \* verdict_list of evaluate_submission
    tc_verdict,     \* the value check_output returned last
    reported,       \* what print_verdict has printed
    error,          \* the exception raised, "none" when none
    exitCode,       \* the exit code of the process, -1 while it runs
    compileCount,   \* number of times the compile command was invoked
    compileRc,      \* exit status of the compiler, -1 before it returned
    execSpawned,    \* execSpawned[d]: times the execute command was spawned for d
    execRc,         \* exit status of the last submission process
    checkerSpawned, \* checkerSpawned[d]: times the checker was spawned for d
    cleanupCount,   \* times compiling_strategy.cleanup was invoked
    lastCaptured,   \* content of the captured output the last check_output judged
    numDirs,        \* number of directories os.listdir finds under test_cases/
    running,        \* the child process that is alive, "none" when none is
    checkerRc,      \* exit code of the last checker process, -1 before
    deterministic,  \* the submission and the checker are deterministic programs
    prog,           \* prog[d]: what the submission printed for directory d's input
    chk,            \* chk[d]: the exit code the checker gave for directory d
    run,            \* 1 in the first run of the script, 2 in the one after it
    firstVerdicts,  \* verdict_list at the end of the first run
    cwdBefore       \* cwd/<input_filename> and cwd/output.user.out before the run

vars == <<ext, input_strat, check_strat, checkerPresent, tcInput, tcExpected,
          tcUserOut, cwdInput, cwdUserOut, cwdInOwner, cwdOutOwner, cwdFiles,
          pc, idx, verdict_list, tc_verdict, reported, error, exitCode,
          compileCount, compileRc, execSpawned, execRc, checkerSpawned,
          cleanupCount, lastCaptured, numDirs, running, checkerRc,
          deterministic, prog, chk, run, firstVerdicts, cwdBefore>>

\* The directories of test_cases/, in the order os.listdir gives them.
Dirs == 1..numDirs

\* The configuration and the environment, fixed during a run.
cfgVars == <<ext, input_strat, check_strat, checkerPresent, numDirs,
             deterministic, cwdBefore>>
\* What is kept from one run of the script to the next.
runVars == <<run, firstVerdicts>>
fsVars == <<tcInput, tcExpected, tcUserOut, cwdInput, cwdUserOut, cwdInOwner,
            cwdOutOwner, cwdFiles>>
procVars == <<compileCount, compileRc, execSpawned, execRc, checkerSpawned,
              cleanupCount, running, checkerRc, prog, chk>>

----------------------------------------------------------------------------
\* Files

NoFile == [present |-> FALSE, data |-> <<>>]
File(d) == [present |-> TRUE, data |-> d]

\* Characters of a file content; "CR" and "LF" are the two line terminators.
Chars == {"a", "b", "CR", "LF"}

RECURSIVE SeqsUpTo(_, _)
SeqsUpTo(S, n) ==
    IF n = 0 THEN {<<>>}
    ELSE LET shorter == SeqsUpTo(S, n - 1)
         IN shorter \cup {Append(s, c) : s \in shorter, c \in S}

\* The input fixture written for directory d, and a file that may lie in the
\* working directory under the same name before the run.
InputData(d) == [k \in 1..d |-> "a"]
StaleInput == <<"b">>
StaleOutput == <<"b", "b">>

\* Expected outputs of the suite and outputs a submission may print.
ExpectedData == <<"a", "LF">>
ExpectedDatas == {ExpectedData, <<"a", "LF", "LF">>}
ChildOutputs == {<<>>, <<"a", "LF">>, <<"b", "LF">>}
\* prog[d] before the submission has run for directory d.
NotRun == <<"?">>
\* The outputs the submission may print for directory d's input: a
\* deterministic one prints what it printed for that input before.
OutputsFor(d) ==
    IF deterministic /\ prog[d] # NotRun THEN {prog[d]} ELSE ChildOutputs

----------------------------------------------------------------------------
\* Reading a text file (open(..., 'r'): universal newlines) line by line

\* "\r\n" and a lone "\r" are read as "\n".
RECURSIVE Translate(_)
Translate(s) ==
    IF s = <<>> THEN <<>>
    ELSE IF s[1] = "CR"
         THEN IF Len(s) >= 2 /\ s[2] = "LF"
              THEN <<"LF">> \o Translate(SubSeq(s, 3, Len(s)))
              ELSE <<"LF">> \o Translate(Tail(s))
         ELSE <<s[1]>> \o Translate(Tail(s))

\* The lines a file object yields: each ends with its "\n", the last one may not.
RECURSIVE SplitLines(_, _)
SplitLines(s, cur) ==
    IF s = <<>> THEN (IF cur = <<>> THEN <<>> ELSE <<cur>>)
    ELSE IF s[1] = "LF"
         THEN <<Append(cur, "LF")>> \o SplitLines(Tail(s), <<>>)
         ELSE SplitLines(Tail(s), Append(cur, s[1]))

FileLines(data) == SplitLines(Translate(data), <<>>)

\* str.rstrip('\r\n')
RECURSIVE RStrip(_)
RStrip(line) ==
    IF line # <<>> /\ line[Len(line)] \in {"CR", "LF"}
    THEN RStrip(SubSeq(line, 1, Len(line) - 1))
    ELSE line

\* fileobj.readline() for the k-th call: the empty string at end of file.
ReadLine(lines, k) == IF k <= Len(lines) THEN lines[k] ELSE <<>>

CompareLine_NoStrip(user_line, expected_line) == user_line # RStrip(expected_line)

\* The test of the loop body of LineCompareCheckStrategy.check_output.
CompareLine(user_line, expected_line) == RStrip(user_line) # RStrip(expected_line)

RECURSIVE LineLoop_StopAtEof(_, _, _)
LineLoop_StopAtEof(expLines, userLines, k) ==
    IF k > Len(expLines) \/ k > Len(userLines) THEN "AC"
    ELSE IF CompareLine(ReadLine(userLines, k), expLines[k]) THEN "WA"
         ELSE LineLoop_StopAtEof(expLines, userLines, k + 1)

\* The loop of LineCompareCheckStrategy.check_output.
RECURSIVE LineLoop(_, _, _)
LineLoop(expLines, userLines, k) ==
    IF k > Len(expLines) THEN "AC"
    ELSE IF CompareLine(ReadLine(userLines, k), expLines[k]) THEN "WA"
         ELSE LineLoop(expLines, userLines, k + 1)

LineCompare(expData, userData) == LineLoop(FileLines(expData), FileLines(userData), 1)

----------------------------------------------------------------------------
\* Configuration tables

SupportedExt == {".cpp", ".java"}
InputStrats == {"automatic", "manual"}
CheckStrats == {"line", "checker"}
CustomExceptions == {"TCNotFound", "InvalidStrategy", "InvalidSubmissionFile",
                     "CheckerNotFound", "SubmissionFileNotFound"}
\* Exceptions the handler of __main__ does not catch.
OtherExceptions == {"FileNotFoundError"}

\* File names are sequences of characters.
\* The suffix cleanup of the compiling strategy of extension e deletes by.
Suffix(e) == IF e = ".cpp" THEN <<"e", "x", "e">> ELSE <<"c", "l", "a", "s", "s">>

SuffixLen_CopyPaste(e) == 3

\* The length of the slice cleanup takes: file[-3:] and file[-5:].
SuffixLen(e) == IF e = ".cpp" THEN 3 ELSE 5

\* file[-n:]: the last n characters, the whole name when it is shorter.
LastChars(file, n) ==
    IF Len(file) <= n THEN file ELSE SubSeq(file, Len(file) - n + 1, Len(file))

\* The test of cleanup: file[-3:] == "exe", file[-5:] == "class".
HasSuffix(file, e) == LastChars(file, SuffixLen(e)) = Suffix(e)

\* Other files the working directory may hold before the run: n.txt, o.exe,
\* O.class, exe, ex, axe.
KeptFile == <<"n", ".", "t", "x", "t">>
OtherFiles == {KeptFile,
               <<"o", ".", "e", "x", "e">>,
               <<"O", ".", "c", "l", "a", "s", "s">>,
               <<"e", "x", "e">>,
               <<"e", "x">>,
               <<"a", "x", "e">>}
\* What the compile command may leave in the working directory: g++ -o "s"
\* writes s or, where executables carry the extension, s.exe; javac S.class.
Artifacts(e) == IF e = ".cpp" THEN {<<"s">>, <<"s", ".", "e", "x", "e">>}
                ELSE {<<"S", ".", "c", "l", "a", "s", "s">>}

----------------------------------------------------------------------------
\* Initial states

TypeOK ==
    /\ ext \in SupportedExt \cup {".py"}
    /\ input_strat \in InputStrats \cup {"stdin"}
    /\ check_strat \in CheckStrats \cup {"diff"}
    /\ checkerPresent \in BOOLEAN
    /\ idx \in 0..(NumCases + 1)
    /\ error \in CustomExceptions \cup OtherExceptions \cup {"none"}
    /\ exitCode \in {-1, 0, 1}
    /\ numDirs \in 0..NumCases
    /\ running \in {"none", "compiler", "submission", "checker"}
    /\ checkerRc \in {-1, 0, 1, 2}
    /\ deterministic \in BOOLEAN
    /\ run \in {1, 2}
    /\ cwdBefore \in [input : {NoFile, File(StaleInput)},
                      output : {NoFile, File(StaleOutput)}]

\* A run of the script from a clean suite: every directory holds or lacks each
\* fixture, and no output.user.out of an earlier run.
Init ==
    /\ ext \in SupportedExt \cup {".py"}
    /\ input_strat \in InputStrats \cup {"stdin"}
    /\ check_strat \in CheckStrats \cup {"diff"}
    /\ checkerPresent \in BOOLEAN
    /\ numDirs \in 0..NumCases
    /\ tcInput \in [Cases -> {NoFile} \cup {File(InputData(d)) : d \in Cases}]
    /\ \A d \in Cases : tcInput[d] \in {NoFile, File(InputData(d))}
    /\ tcExpected \in [Cases -> {NoFile} \cup {File(e) : e \in ExpectedDatas}]
    /\ \A d \in Cases \ Dirs : tcInput[d] = NoFile /\ tcExpected[d] = NoFile
    /\ tcUserOut = [d \in Cases |-> NoFile]
    /\ cwdInput \in {NoFile, File(StaleInput)}
    /\ cwdUserOut \in {NoFile, File(StaleOutput)}
    /\ cwdInOwner = 0
    /\ cwdOutOwner = 0
    /\ cwdFiles \in {{KeptFile}, OtherFiles}
    /\ pc = "main"
    /\ idx = 0
    /\ verdict_list = <<>>
    /\ tc_verdict = "none"
    /\ reported = <<>>
    /\ error = "none"
    /\ exitCode = -1
    /\ compileCount = 0
    /\ compileRc = -1
    /\ execSpawned = [d \in Cases |-> 0]
    /\ execRc = -1
    /\ checkerSpawned = [d \in Cases |-> 0]
    /\ cleanupCount = 0
    /\ lastCaptured = <<>>
    /\ running = "none"
    /\ checkerRc = -1
    /\ deterministic = FALSE
    /\ prog = [d \in Cases |-> NotRun]
    /\ chk = [d \in Cases |-> -1]
    /\ run = 1
    /\ firstVerdicts = <<>>
    /\ cwdBefore = [input |-> cwdInput, output |-> cwdUserOut]

\* raise e: the exception propagates to the handler of __main__.
Raise(e) ==
    /\ error' = e
    /\ pc' = "raised"

----------------------------------------------------------------------------
\* main, compile_submission

Main_AnyExtension ==
    /\ pc = "main"
    /\ pc' = "compile"
    /\ UNCHANGED <<cfgVars, runVars, fsVars, procVars, idx, verdict_list,
                   tc_verdict, reported, error, exitCode, lastCaptured>>

\* main: get_compiling_strategy, then the call of evaluate_submission.
Main ==
    /\ pc = "main"
    /\ IF ext \notin SupportedExt
       THEN Raise("InvalidSubmissionFile")
       ELSE pc' = "compile" /\ UNCHANGED error
    /\ UNCHANGED <<cfgVars, runVars, fsVars, procVars, idx, verdict_list, tc_verdict,
                   reported, exitCode, lastCaptured>>

CompileSpawn_Skipped ==
    /\ pc = "compile"
    /\ pc' = "loop"
    /\ idx' = 1
    /\ UNCHANGED <<cfgVars, runVars, fsVars, verdict_list, tc_verdict, reported, error,
                   exitCode, compileCount, compileRc, execSpawned, execRc,
                   checkerSpawned, cleanupCount, lastCaptured, running,
                   checkerRc, prog, chk>>

\* compile_submission: subprocess.call spawns the compiler ...
CompileSpawn ==
    /\ pc = "compile"
    /\ compileCount' = compileCount + 1
    /\ running' = "compiler"
    /\ pc' = "compile_wait"
    /\ UNCHANGED <<cfgVars, runVars, fsVars, idx, verdict_list, tc_verdict, reported,
                   error, exitCode, compileRc, execSpawned, execRc,
                   checkerSpawned, cleanupCount, lastCaptured, checkerRc,
                   prog, chk>>

\* ... and returns its exit status, which nobody reads. verdict_list = [].
CompileReturn ==
    /\ pc = "compile_wait"
    /\ \E rc \in {0, 1}, artifact \in Artifacts(ext) :
        /\ compileRc' = rc
        /\ cwdFiles' = IF rc = 0 THEN cwdFiles \cup {artifact} ELSE cwdFiles
    /\ running' = "none"
    /\ verdict_list' = <<>>
    /\ idx' = 1
    /\ pc' = "loop"
    /\ UNCHANGED <<cfgVars, runVars, tcInput, tcExpected, tcUserOut, cwdInput, cwdUserOut,
                   cwdInOwner, cwdOutOwner, tc_verdict, reported, error, exitCode,
                   compileCount, execSpawned, execRc, checkerSpawned,
                   cleanupCount, lastCaptured, checkerRc, prog, chk>>

\* for directory in os.listdir(...): the next directory, or the end of the loop.
LoopNext ==
    /\ pc = "loop"
    /\ pc' = IF idx \in Dirs THEN "get_input" ELSE "print"
    /\ UNCHANGED <<cfgVars, runVars, fsVars, procVars, idx, verdict_list, tc_verdict,
                   reported, error, exitCode, lastCaptured>>

----------------------------------------------------------------------------
\* Input strategies

\* ManualInputStrategy.__init__ after super().__init__: the input fixture is
\* renamed into the working directory and cwd/output.user.out is opened 'w'.
StageInput(d) ==
    /\ cwdInput' = tcInput[d]
    /\ cwdInOwner' = d
    /\ tcInput' = [tcInput EXCEPT ![d] = NoFile]
    /\ cwdUserOut' = File(<<>>)
    /\ cwdOutOwner' = d
    /\ UNCHANGED tcUserOut

\* AutomaticInputStrategy.__init__ after super().__init__: the input fixture is
\* opened for reading and <tc_dir>/output.user.out is opened 'w'.
OpenStreams(d) ==
    /\ tcUserOut' = [tcUserOut EXCEPT ![d] = File(<<>>)]
    /\ UNCHANGED <<tcInput, cwdInput, cwdInOwner, cwdUserOut, cwdOutOwner>>

\* get_input_strategy(parsed_args, tc_dir), the first argument of check_tc:
\* the lookup in instance_factory, InputStrategy.__init__ and the constructor
\* of the variant.
GetInputStrategy ==
    /\ pc = "get_input"
    /\ IF input_strat \notin InputStrats
       THEN Raise("InvalidStrategy")
            /\ UNCHANGED <<tcInput, tcUserOut, cwdInput, cwdInOwner, cwdUserOut,
                           cwdOutOwner>>
       ELSE IF ~tcInput[idx].present
       THEN Raise("TCNotFound")
            /\ UNCHANGED <<tcInput, tcUserOut, cwdInput, cwdInOwner, cwdUserOut,
                           cwdOutOwner>>
       ELSE /\ IF input_strat = "manual" THEN StageInput(idx) ELSE OpenStreams(idx)
            /\ pc' = "get_check"
            /\ UNCHANGED error
    /\ UNCHANGED <<cfgVars, runVars, tcExpected, cwdFiles, procVars, idx, verdict_list,
                   tc_verdict, reported, exitCode, lastCaptured>>

ExpectedMissing_Unchecked(d) == FALSE

\* CheckSolutionStrategy.__init__: the expected-output fixture must be a file.
ExpectedMissing(d) == ~tcExpected[d].present

\* get_check_solution_strategy(parsed_args, tc_dir), the second argument of
\* check_tc, evaluated after the input strategy has been constructed.
GetCheckStrategy ==
    /\ pc = "get_check"
    /\ IF check_strat \notin CheckStrats
       THEN Raise("InvalidStrategy")
       ELSE IF ExpectedMissing(idx)
       THEN Raise("TCNotFound")
       ELSE pc' = "exec" /\ UNCHANGED error
    /\ UNCHANGED <<cfgVars, runVars, fsVars, procVars, idx, verdict_list, tc_verdict,
                   reported, exitCode, lastCaptured>>

ExecSpawn_NoWait ==
    /\ pc = "exec"
    /\ execSpawned' = [execSpawned EXCEPT ![idx] = @ + 1]
    /\ running' = "submission"
    /\ pc' = "exec_cleanup"
    /\ UNCHANGED <<cfgVars, runVars, fsVars, idx, verdict_list, tc_verdict,
                   reported, error, exitCode, compileCount, compileRc, execRc,
                   checkerSpawned, cleanupCount, lastCaptured, checkerRc,
                   prog, chk>>

\* execute_strategy: subprocess.Popen spawns the execute command ...
ExecSpawn ==
    /\ pc = "exec"
    /\ execSpawned' = [execSpawned EXCEPT ![idx] = @ + 1]
    /\ running' = "submission"
    /\ pc' = "exec_wait"
    /\ UNCHANGED <<cfgVars, runVars, fsVars, idx, verdict_list, tc_verdict,
                   reported, error, exitCode, compileCount, compileRc, execRc,
                   checkerSpawned, cleanupCount, lastCaptured, checkerRc,
                   prog, chk>>

\* ... and wait() returns once the submission has exited, normally or not,
\* having written some output to the file bound to its standard output.
ExecReturn ==
    /\ pc = "exec_wait"
    /\ \E out \in OutputsFor(idx), rc \in {0, 1} :
        /\ execRc' = rc
        /\ prog' = IF deterministic THEN [prog EXCEPT ![idx] = out] ELSE prog
        /\ IF input_strat = "manual"
           THEN /\ cwdUserOut' = File(out)
                /\ UNCHANGED tcUserOut
           ELSE /\ tcUserOut' = [tcUserOut EXCEPT ![idx] = File(out)]
                /\ UNCHANGED cwdUserOut
    /\ running' = "none"
    /\ pc' = "exec_cleanup"
    /\ UNCHANGED <<cfgVars, runVars, tcInput, tcExpected, cwdInput, cwdInOwner,
                   cwdOutOwner, cwdFiles, idx, verdict_list, tc_verdict,
                   reported, error, exitCode, compileCount, compileRc,
                   execSpawned, checkerSpawned, cleanupCount, lastCaptured,
                   checkerRc, chk>>

RestoreFixtures_NoRename(d) ==
    /\ tcUserOut' = [tcUserOut EXCEPT ![d] = cwdUserOut]
    /\ cwdUserOut' = NoFile
    /\ cwdOutOwner' = 0
    /\ UNCHANGED <<tcInput, cwdInput, cwdInOwner>>

\* ManualInputStrategy.__cleanup: the two renames back into the directory.
RestoreFixtures(d) ==
    /\ tcInput' = [tcInput EXCEPT ![d] = cwdInput]
    /\ cwdInput' = NoFile
    /\ cwdInOwner' = 0
    /\ tcUserOut' = [tcUserOut EXCEPT ![d] = cwdUserOut]
    /\ cwdUserOut' = NoFile
    /\ cwdOutOwner' = 0

\* The end of execute_strategy: flush, then __cleanup of the variant (the
\* automatic one only closes its two file objects).
InputCleanup ==
    /\ pc = "exec_cleanup"
    /\ IF input_strat = "manual"
       THEN RestoreFixtures(idx)
       ELSE UNCHANGED <<tcInput, tcUserOut, cwdInput, cwdInOwner, cwdUserOut,
                        cwdOutOwner>>
    /\ pc' = "check"
    /\ UNCHANGED <<cfgVars, runVars, tcExpected, cwdFiles, procVars, idx, verdict_list,
                   tc_verdict, reported, error, exitCode, lastCaptured>>

----------------------------------------------------------------------------
\* Check strategies

RemoveCaptured_Kept(d) == tcUserOut

\* os.remove(self.user_output_filepath) of cleanup, in both check strategies.
RemoveCaptured(d) == [tcUserOut EXCEPT ![d] = NoFile]

\* LineCompareCheckStrategy.check_output: setup_strategy opens the two files,
\* the loop compares them, cleanup closes them and removes the captured output.
\* A file that cannot be opened ends the process with a traceback.
LineCheckOutput ==
    /\ pc = "check"
    /\ check_strat = "line"
    /\ IF tcUserOut[idx].present /\ tcExpected[idx].present
       THEN /\ lastCaptured' = tcUserOut[idx].data
            /\ tc_verdict' = LineCompare(tcExpected[idx].data, tcUserOut[idx].data)
            /\ tcUserOut' = RemoveCaptured(idx)
            /\ pc' = "append"
            /\ UNCHANGED <<error, exitCode>>
       ELSE /\ error' = "FileNotFoundError"
            /\ exitCode' = 1
            /\ pc' = "exited"
            /\ UNCHANGED <<lastCaptured, tc_verdict, tcUserOut>>
    /\ UNCHANGED <<cfgVars, runVars, tcInput, tcExpected, cwdInput, cwdUserOut, cwdInOwner,
                   cwdOutOwner, cwdFiles, procVars, idx, verdict_list, reported>>

\* CheckerCompareCheckStrategy.check_output calls run_checker first: Popen
\* spawns python with the checker's name ...
CheckerSpawn ==
    /\ pc = "check"
    /\ check_strat = "checker"
    /\ checkerSpawned' = [checkerSpawned EXCEPT ![idx] = @ + 1]
    /\ running' = "checker"
    /\ pc' = "checker_wait"
    /\ UNCHANGED <<cfgVars, runVars, fsVars, idx, verdict_list, tc_verdict,
                   reported, error, exitCode, compileCount, compileRc,
                   execSpawned, execRc, cleanupCount, lastCaptured, checkerRc,
                   prog, chk>>

\* Exit codes of the checker process for directory d: python exits with 2
\* when the script it is given is not a file; a deterministic checker gives
\* the files of a directory the exit code it gave them before.
CheckerExitCodes(d) ==
    IF ~checkerPresent THEN {2}
    ELSE IF deterministic /\ chk[d] # -1 THEN {chk[d]}
    ELSE {0, 1}

CheckerVerdict_Inverted(rc) == IF rc = 0 THEN "WA" ELSE "AC"

\* verdict = 'AC' if (checker_exit_code == 0) else 'WA'
CheckerVerdict(rc) == IF rc = 0 THEN "AC" ELSE "WA"

\* ... wait() returns its exit code, the verdict is taken from it and cleanup
\* removes the captured output.
CheckerReturn ==
    /\ pc = "checker_wait"
    /\ \E rc \in CheckerExitCodes(idx) :
        /\ checkerRc' = rc
        /\ chk' = IF deterministic THEN [chk EXCEPT ![idx] = rc] ELSE chk
        /\ tc_verdict' = CheckerVerdict(rc)
    /\ running' = "none"
    /\ lastCaptured' = tcUserOut[idx].data
    /\ tcUserOut' = RemoveCaptured(idx)
    /\ pc' = "append"
    /\ UNCHANGED <<cfgVars, runVars, tcInput, tcExpected, cwdInput, cwdUserOut,
                   cwdInOwner, cwdOutOwner, cwdFiles, idx, verdict_list,
                   reported, error, exitCode, compileCount, compileRc,
                   execSpawned, execRc, checkerSpawned, cleanupCount, prog>>

----------------------------------------------------------------------------
\* The rest of evaluate_submission and of __main__

NextIndex_StopOnWA(i, verdict) == IF verdict = "WA" THEN numDirs + 1 ELSE i + 1

\* The loop goes on to the next directory whatever the verdict.
NextIndex(i, verdict) == i + 1

AppendVerdict_CleansUp ==
    /\ pc = "append"
    /\ verdict_list' = Append(verdict_list, <<idx, tc_verdict>>)
    /\ idx' = NextIndex(idx, tc_verdict)
    /\ cwdFiles' = {f \in cwdFiles : ~HasSuffix(f, ext)}
    /\ cleanupCount' = cleanupCount + 1
    /\ pc' = "loop"
    /\ UNCHANGED <<cfgVars, runVars, tcInput, tcExpected, tcUserOut, cwdInput,
                   cwdUserOut, cwdInOwner, cwdOutOwner, tc_verdict, reported,
                   error, exitCode, lastCaptured, compileCount, compileRc,
                   execSpawned, execRc, checkerSpawned, running, checkerRc,
                   prog, chk>>

\* check_tc returns tc_verdict; verdict_list.append((directory, tc_verdict)).
AppendVerdict ==
    /\ pc = "append"
    /\ verdict_list' = Append(verdict_list, <<idx, tc_verdict>>)
    /\ idx' = NextIndex(idx, tc_verdict)
    /\ pc' = "loop"
    /\ UNCHANGED <<cfgVars, runVars, fsVars, procVars, tc_verdict, reported, error,
                   exitCode, lastCaptured>>

\* print_verdict(verdict_list)
PrintVerdict ==
    /\ pc = "print"
    /\ reported' = verdict_list
    /\ pc' = "cleanup"
    /\ UNCHANGED <<cfgVars, runVars, fsVars, procVars, idx, verdict_list, tc_verdict,
                   error, exitCode, lastCaptured>>

\* compiling_strategy.cleanup(): every file of the working directory whose name
\* ends with the suffix is removed.
CompilingCleanup ==
    /\ pc = "cleanup"
    /\ cwdFiles' = {f \in cwdFiles : ~HasSuffix(f, ext)}
    /\ cleanupCount' = cleanupCount + 1
    /\ pc' = "return"
    /\ UNCHANGED <<cfgVars, runVars, tcInput, tcExpected, tcUserOut, cwdInput,
                   cwdUserOut, cwdInOwner, cwdOutOwner, idx, verdict_list,
                   tc_verdict, reported, error, exitCode, compileCount,
                   compileRc, execSpawned, execRc, checkerSpawned, lastCaptured,
                   running, checkerRc, prog, chk>>

ExitStatus_AlwaysZero(raised) == 0

\* sys.exit(main()) with main returning None, and sys.exit(1) of the handler.
ExitStatus(raised) == IF raised THEN 1 ELSE 0

\* main returns None: sys.exit(main()) exits with code 0.
MainReturn ==
    /\ pc = "return"
    /\ exitCode' = ExitStatus(FALSE)
    /\ pc' = "exited"
    /\ UNCHANGED <<cfgVars, runVars, fsVars, procVars, idx, verdict_list, tc_verdict,
                   reported, error, lastCaptured>>

ExceptHandler_CleansUp ==
    /\ pc = "raised"
    /\ exitCode' = ExitStatus(TRUE)
    /\ cwdFiles' = {f \in cwdFiles : ~HasSuffix(f, ext)}
    /\ cleanupCount' = cleanupCount + 1
    /\ pc' = "exited"
    /\ UNCHANGED <<cfgVars, runVars, tcInput, tcExpected, tcUserOut, cwdInput,
                   cwdUserOut, cwdInOwner, cwdOutOwner, idx, verdict_list,
                   tc_verdict, reported, error, lastCaptured, compileCount,
                   compileRc, execSpawned, execRc, checkerSpawned, running,
                   checkerRc, prog, chk>>

\* except CustomException as err: print the message, sys.exit(1).
ExceptHandler ==
    /\ pc = "raised"
    /\ exitCode' = ExitStatus(TRUE)
    /\ pc' = "exited"
    /\ UNCHANGED <<cfgVars, runVars, fsVars, procVars, idx, verdict_list, tc_verdict,
                   reported, error, lastCaptured>>

Next ==
    \/ Main
    \/ CompileSpawn
    \/ CompileReturn
    \/ LoopNext
    \/ GetInputStrategy
    \/ GetCheckStrategy
    \/ ExecSpawn
    \/ ExecReturn
    \/ InputCleanup
    \/ LineCheckOutput
    \/ CheckerSpawn
    \/ CheckerReturn
    \/ AppendVerdict
    \/ PrintVerdict
    \/ CompilingCleanup
    \/ MainReturn
    \/ ExceptHandler

Spec == Init /\ [][Next]_vars

----------------------------------------------------------------------------
\* The line comparison alone: check_output of the line strategy applied to
\* every expected output and every captured output of at most MaxLen
\* characters, in the first directory.

Contents == SeqsUpTo(Chars, MaxLen)

InitLine ==
    /\ ext = ".cpp"
    /\ input_strat = "automatic"
    /\ check_strat = "line"
    /\ checkerPresent = FALSE
    /\ tcInput = [d \in Cases |-> File(InputData(d))]
    /\ \E e \in Contents :
           tcExpected = [d \in Cases |-> IF d = 1 THEN File(e) ELSE File(ExpectedData)]
    /\ \E u \in Contents :
           tcUserOut = [d \in Cases |-> IF d = 1 THEN File(u) ELSE NoFile]
    /\ cwdInput = NoFile
    /\ cwdUserOut = NoFile
    /\ cwdInOwner = 0
    /\ cwdOutOwner = 0
    /\ cwdFiles = {}
    /\ pc = "check"
    /\ idx = 1
    /\ verdict_list = <<>>
    /\ tc_verdict = "none"
    /\ reported = <<>>
    /\ error = "none"
    /\ exitCode = -1
    /\ compileCount = 1
    /\ compileRc = 0
    /\ execSpawned = [d \in Cases |-> IF d = 1 THEN 1 ELSE 0]
    /\ execRc = 0
    /\ checkerSpawned = [d \in Cases |-> 0]
    /\ cleanupCount = 0
    /\ lastCaptured = <<>>
    /\ numDirs = NumCases
    /\ running = "none"
    /\ checkerRc = -1
    /\ deterministic = FALSE
    /\ prog = [d \in Cases |-> NotRun]
    /\ chk = [d \in Cases |-> -1]
    /\ run = 1
    /\ firstVerdicts = <<>>
    /\ cwdBefore = [input |-> cwdInput, output |-> cwdUserOut]

NextLine == LineCheckOutput

SpecLine == InitLine /\ [][NextLine]_vars

\* The run under the hypothesis that every spawned process exits: call() and
\* wait() return, and the sequential program takes its next step.
\* The working directory starts without files of an earlier run.
InitLive ==
    /\ Init
    /\ cwdInput = NoFile
    /\ cwdUserOut = NoFile
    /\ cwdFiles = {KeptFile}

SpecLive == InitLive /\ [][Next]_vars /\ WF_vars(Next)

----------------------------------------------------------------------------
\* Two successive runs of the program on the same submission and test-case
\* set: the submission and the checker are deterministic programs, so the
\* output and the exit code recorded for a directory by the first run are
\* those of the second run.

InitTwice ==
    /\ ext \in SupportedExt \cup {".py"}
    /\ input_strat \in InputStrats \cup {"stdin"}
    /\ check_strat \in CheckStrats \cup {"diff"}
    /\ checkerPresent \in BOOLEAN
    /\ numDirs \in 0..NumCases
    /\ tcInput \in [Cases -> {NoFile} \cup {File(InputData(d)) : d \in Cases}]
    /\ \A d \in Cases : tcInput[d] \in {NoFile, File(InputData(d))}
    /\ tcExpected \in [Cases -> {NoFile} \cup {File(e) : e \in ExpectedDatas}]
    /\ \A d \in Cases \ Dirs : tcInput[d] = NoFile /\ tcExpected[d] = NoFile
    /\ tcUserOut = [d \in Cases |-> NoFile]
    /\ cwdInput \in {NoFile, File(StaleInput)}
    /\ cwdUserOut \in {NoFile, File(StaleOutput)}
    /\ cwdInOwner = 0
    /\ cwdOutOwner = 0
    /\ cwdFiles = OtherFiles
    /\ pc = "main"
    /\ idx = 0
    /\ verdict_list = <<>>
    /\ tc_verdict = "none"
    /\ reported = <<>>
    /\ error = "none"
    /\ exitCode = -1
    /\ compileCount = 0
    /\ compileRc = -1
    /\ execSpawned = [d \in Cases |-> 0]
    /\ execRc = -1
    /\ checkerSpawned = [d \in Cases |-> 0]
    /\ cleanupCount = 0
    /\ lastCaptured = <<>>
    /\ running = "none"
    /\ checkerRc = -1
    /\ deterministic = TRUE
    /\ prog = [d \in Cases |-> NotRun]
    /\ chk = [d \in Cases |-> -1]
    /\ run = 1
    /\ firstVerdicts = <<>>
    /\ cwdBefore = [input |-> cwdInput, output |-> cwdUserOut]

\* The program is started again after a completed run: a new process, whose
\* variables are those of a start; the files are what the first run left.
Restart ==
    /\ pc = "exited"
    /\ error = "none"
    /\ run = 1
    /\ run' = 2
    /\ firstVerdicts' = verdict_list
    /\ pc' = "main"
    /\ idx' = 0
    /\ verdict_list' = <<>>
    /\ tc_verdict' = "none"
    /\ reported' = <<>>
    /\ exitCode' = -1
    /\ compileCount' = 0
    /\ compileRc' = -1
    /\ execSpawned' = [d \in Cases |-> 0]
    /\ execRc' = -1
    /\ checkerSpawned' = [d \in Cases |-> 0]
    /\ cleanupCount' = 0
    /\ lastCaptured' = <<>>
    /\ checkerRc' = -1
    /\ UNCHANGED <<cfgVars, fsVars, error, running, prog, chk>>

NextTwice == Next \/ Restart

SpecTwice == InitTwice /\ [][NextTwice]_vars

----------------------------------------------------------------------------
\* Vocabulary of the properties

\* The concatenation of a sequence of lines.
RECURSIVE Flatten(_)
Flatten(lines) == IF lines = <<>> THEN <<>> ELSE Head(lines) \o Flatten(Tail(lines))

\* Directory d's input fixture lies staged in the working directory.
StagedBy(d) == cwdInput.present /\ cwdInOwner = d

\* A transient file of directory d exists.
HasTransient(d) ==
    \/ StagedBy(d)
    \/ cwdUserOut.present /\ cwdOutOwner = d
    \/ tcUserOut[d].present

\* The processing of directory d has ended: with a verdict, or with the run.
Ended(d) ==
    /\ d \in Dirs
    /\ \/ d < idx
       \/ d = idx /\ pc \in {"append", "raised", "exited"}

\* check_output of the line strategy has just returned.
LineJudged == pc = "append" /\ check_strat = "line"
ExpLines == FileLines(tcExpected[idx].data)
CapLines == FileLines(lastCaptured)
LineMatches(i) == RStrip(CapLines[i]) = RStrip(ExpLines[i])

----------------------------------------------------------------------------
\* C1: the compile command is invoked exactly once in a run of
\* evaluate_submission, and it has returned, with whatever exit status, before
\* the execute command is spawned for any test case.
C1_CompileOnceBeforeExec ==
    /\ compileCount <= 1
    /\ (pc \notin {"main", "compile"} /\ error # "InvalidSubmissionFile")
           => compileCount = 1
    /\ \A d \in Cases :
           execSpawned[d] > 0 => compileCount = 1 /\ compileRc \in {0, 1}

\* The submission runs for the last case after a failed compilation.
C1_Witness ==
    /\ execSpawned[NumCases] > 0
    /\ compileCount = 1
    /\ compileRc = 1

\* C2: a run that ends without an error has one verdict per directory, in
\* enumeration order, each AC or WA; a WA does not stop the loop.
C2_VerdictPerCase ==
    /\ (pc \in {"print", "cleanup", "return"} \/ (pc = "exited" /\ error = "none"))
           => /\ Len(verdict_list) = numDirs
              /\ \A k \in Dirs :
                     /\ verdict_list[k][1] = k
                     /\ verdict_list[k][2] \in {"AC", "WA"}
    /\ pc = "loop" => idx = Len(verdict_list) + 1

\* A completed run whose first verdict is WA.
C2_Witness ==
    /\ pc = "exited"
    /\ error = "none"
    /\ numDirs = NumCases
    /\ Len(verdict_list) = NumCases
    /\ verdict_list[1][2] = "WA"

\* C3: when the captured output has at least as many lines as the expected
\* output, the line verdict is AC exactly when every expected line equals the
\* captured line at its position after rstrip('\r\n') of both; the captured
\* lines after the last expected one do not change the verdict.
C3_LineCompareIff ==
    (LineJudged /\ Len(CapLines) >= Len(ExpLines))
        => /\ (tc_verdict = "AC") <=> (\A i \in 1..Len(ExpLines) : LineMatches(i))
           /\ tc_verdict = LineCompare(tcExpected[idx].data,
                                       Flatten(SubSeq(CapLines, 1, Len(ExpLines))))

\* AC with a captured output that goes on after the expected one.
C3_Witness ==
    /\ LineJudged
    /\ Len(ExpLines) >= 1
    /\ Len(CapLines) > Len(ExpLines)
    /\ tc_verdict = "AC"

\* C4 as stated: a captured output with fewer lines than the expected output
\* is always judged WA.
C4_PrematureEndIsWA ==
    (LineJudged /\ Len(CapLines) < Len(ExpLines)) => tc_verdict = "WA"

\* C4, amended: a captured output with fewer lines than the expected output is
\* judged WA exactly when one of its lines differs from the expected line at
\* its position or one of the expected lines past its end is not blank.
C4_PrematureEnd ==
    (LineJudged /\ Len(CapLines) < Len(ExpLines))
        => ((tc_verdict = "WA") <=>
               \/ \E i \in 1..Len(CapLines) : ~LineMatches(i)
               \/ \E i \in (Len(CapLines) + 1)..Len(ExpLines) : RStrip(ExpLines[i]) # <<>>)

\* WA for a captured output that matches as far as it goes and ends early.
C4_Witness ==
    /\ LineJudged
    /\ Len(CapLines) >= 1
    /\ Len(CapLines) < Len(ExpLines)
    /\ \A i \in 1..Len(CapLines) : LineMatches(i)
    /\ tc_verdict = "WA"

\* C5 as stated: in checker mode without the checker file no case gets a
\* verdict and the run ends with CheckerNotFound.
C5_CheckerNotFound ==
    (check_strat = "checker" /\ ~checkerPresent)
        => /\ tc_verdict = "none"
           /\ verdict_list = <<>>
           /\ (pc = "exited" /\ numDirs >= 1) => error # "none"
           /\ \A d \in Cases : Ended(d) /\ checkerSpawned[d] > 0
                                  => error = "CheckerNotFound"

\* C6 as stated: in manual mode, once the processing of a case has ended its
\* input fixture is back in its directory and not in the working directory.
C6_RestoredOnEveryExit ==
    \A d \in Dirs :
        (input_strat = "manual" /\ Ended(d))
            => /\ ~StagedBy(d)
               /\ tcInput[d].present \/ (d = idx /\ error = "TCNotFound")

\* C7: a directory without its expected-output fixture makes the run raise
\* TCNotFound at that directory, with neither the execute command nor the
\* checker spawned for it, in both input modes and both check modes.
C7_MissingExpected ==
    \A d \in Dirs :
        (~tcExpected[d].present /\ input_strat \in InputStrats
                                /\ check_strat \in CheckStrats)
            => /\ execSpawned[d] = 0
               /\ checkerSpawned[d] = 0
               /\ idx <= d
               /\ (idx = d /\ pc \notin {"loop", "get_input", "get_check"})
                      => error = "TCNotFound" /\ pc \in {"raised", "exited"}

\* TCNotFound raised by the check strategy of the last directory, whose input
\* strategy had been constructed.
C7_Witness ==
    /\ idx = NumCases
    /\ ~tcExpected[idx].present
    /\ HasTransient(idx)
    /\ error = "TCNotFound"
    /\ pc = "exited"
    /\ execSpawned[idx] = 0

\* C8: once a custom exception is raised nothing more is delivered, verified,
\* appended or printed, and the process exits with code 1; the process exits
\* with code 0 only after every directory was judged and the list printed.
C8_AbortIsFinal ==
    /\ [](/\ error \in CustomExceptions
              => pc \in {"raised", "exited"} /\ reported = <<>>
          /\ pc = "exited" => exitCode = (IF error = "none" THEN 0 ELSE 1)
          /\ pc # "exited" => exitCode = -1
          /\ exitCode = 0 => /\ Len(verdict_list) = numDirs
                             /\ reported = verdict_list)
    /\ [][error # "none"
              => UNCHANGED <<fsVars, procVars, idx, verdict_list, tc_verdict,
                             reported, error>>]_vars

\* A run aborted at the last directory, after verdicts for the earlier ones.
C8_Witness ==
    /\ pc = "exited"
    /\ error \in CustomExceptions
    /\ exitCode = 1
    /\ idx = NumCases
    /\ Len(verdict_list) = NumCases - 1
    /\ reported = <<>>

\* C9: in manual mode, when execute_strategy has returned, the input fixture
\* is in its directory with its content, the captured output is in the
\* directory, and the working directory holds neither of the two.
C9_StagingRoundTrip ==
    (input_strat = "manual" /\ pc = "check")
        => /\ tcInput[idx] = File(InputData(idx))
           /\ tcUserOut[idx].present
           /\ ~cwdInput.present
           /\ ~cwdUserOut.present

\* execute_strategy of the manual strategy returned for the last directory,
\* the submission having exited with a non-zero status.
C9_Witness ==
    /\ input_strat = "manual"
    /\ pc = "check"
    /\ idx = NumCases
    /\ execRc = 1

\* C10: the transient files that exist belong to the directory the loop is
\* at; none of an earlier or later directory exists.
C10_OneCaseTransient ==
    /\ \A d \in Cases : HasTransient(d) => d = idx
    /\ Cardinality({d \in Cases : HasTransient(d)}) <= 1

\* Transient files of the last directory exist, the earlier ones were judged.
C10_Witness ==
    /\ idx = NumCases
    /\ Len(verdict_list) = NumCases - 1
    /\ StagedBy(idx)
    /\ cwdUserOut.present /\ cwdOutOwner = idx

\* C11: when check_output has returned a verdict for a directory, line or
\* checker strategy, AC or WA, output.user.out is no longer in that directory.
C11_CapturedRemoved ==
    pc = "append"
        => /\ tc_verdict \in {"AC", "WA"}
           /\ ~tcUserOut[idx].present

\* The line strategy returned WA on a mismatch in the first line.
C11_Witness ==
    /\ pc = "append"
    /\ check_strat = "line"
    /\ tc_verdict = "WA"
    /\ lastCaptured = <<"b", "LF">>
    /\ ~tcUserOut[idx].present

\* C12: in checker mode the verdict is AC when the checker exited with code 0
\* and WA for every other exit code, whatever the two output files hold.
C12_CheckerExitCodeDecides ==
    (pc = "append" /\ check_strat = "checker")
        => /\ checkerRc \in {0, 1, 2}
           /\ tc_verdict = (IF checkerRc = 0 THEN "AC" ELSE "WA")

\* AC from exit code 0 for a captured output that differs from the expected one.
C12_Witness ==
    /\ pc = "append"
    /\ check_strat = "checker"
    /\ checkerRc = 0
    /\ tc_verdict = "AC"
    /\ lastCaptured = <<"b", "LF">>
    /\ tcExpected[idx].data = ExpectedData

\* C13 as stated: with a supported submission, an unknown input mode or an
\* unknown check mode always ends the run with InvalidStrategy, nothing is
\* printed, whatever the number of directories, and no input fixture is left
\* staged in the working directory.
C13_UnknownStrategyAborts ==
    (/\ ext \in {".cpp", ".java"}
     /\ \/ input_strat \notin {"automatic", "manual"}
        \/ check_strat \notin {"line", "checker"})
        => /\ pc \notin {"print", "cleanup", "return"}
           /\ pc = "exited" => /\ error = "InvalidStrategy"
                               /\ \A d \in Cases : ~StagedBy(d)

\* C14: with an extension other than .cpp and .java the run ends with
\* InvalidSubmissionFile and no compiler, submission or checker is spawned.
C14_UnsupportedExtension ==
    ext \notin {".cpp", ".java"}
        => /\ compileCount = 0
           /\ running = "none"
           /\ \A d \in Cases : execSpawned[d] = 0 /\ checkerSpawned[d] = 0
           /\ pc \in {"main", "raised", "exited"}
           /\ pc # "main" => error = "InvalidSubmissionFile"

\* The run of a .py submission has ended, with directories to judge.
C14_Witness ==
    /\ ext = ".py"
    /\ pc = "exited"
    /\ error = "InvalidSubmissionFile"
    /\ exitCode = 1
    /\ numDirs = NumCases
    /\ compileCount = 0

\* C15: cleanup of the compiling strategy is invoked once in a run that judges
\* every directory, after the last verdict was appended and the list printed;
\* it is not invoked while directories remain to be judged.
C15_CleanupOnceAtEnd ==
    /\ cleanupCount <= 1
    /\ cleanupCount = 1
           => /\ pc \in {"return", "exited"}
              /\ error = "none"
              /\ Len(verdict_list) = numDirs
              /\ idx = numDirs + 1
    /\ (pc \in {"return", "exited"} /\ error = "none") => cleanupCount = 1

\* A completed run of NumCases directories after its cleanup.
C15_Witness ==
    /\ pc = "exited"
    /\ error = "none"
    /\ numDirs = NumCases
    /\ Len(verdict_list) = NumCases
    /\ cleanupCount = 1

\* C17 as stated: when a run has ended, completed or aborted with one of the
\* program's own errors, no output.user.out written by the run exists in a
\* test-case directory or in the working directory.
C17_CapturedEphemeral ==
    (pc = "exited" /\ error \in CustomExceptions \cup {"none"})
        => /\ \A d \in Cases : ~tcUserOut[d].present
           /\ ~(cwdUserOut.present /\ cwdOutOwner # 0)

\* name ends with the characters of suf.
EndsWith(name, suf) ==
    \E k \in 0..Len(name) : SubSeq(name, k + 1, Len(name)) = suf

\* C19: the step of the compiling strategy's cleanup leaves no file of the
\* working directory whose name ends with the variant's suffix, those that
\* were there before the run included, and keeps every other file.
C19_CleanupBySuffix ==
    [][pc = "cleanup"
          => /\ \A f \in cwdFiles' : ~EndsWith(f, Suffix(ext))
             /\ \A f \in cwdFiles : ~EndsWith(f, Suffix(ext)) => f \in cwdFiles'
             /\ cwdFiles' \subseteq cwdFiles
             /\ UNCHANGED <<tcInput, tcExpected, tcUserOut, cwdInput,
                            cwdUserOut>>]_vars

\* After the cleanup of a C++ run the older o.exe and the compiled s.exe are
\* gone, the files named O.class, ex and n.txt are still there.
C19_Witness ==
    /\ cleanupCount = 1
    /\ ext = ".cpp"
    /\ compileRc = 0
    /\ <<"o", ".", "e", "x", "e">> \notin cwdFiles
    /\ <<"s", ".", "e", "x", "e">> \notin cwdFiles
    /\ {<<"O", ".", "c", "l", "a", "s", "s">>, <<"e", "x">>, KeptFile}
           \subseteq cwdFiles

\* C20: on a run aborted with one of the program's errors the cleanup of the
\* compiling strategy is not invoked, and when the compiler was run and
\* succeeded its artifact is still in the working directory.
C20_NoCleanupOnAbort ==
    error \in CustomExceptions
        => /\ cleanupCount = 0
           /\ (compileCount = 1 /\ compileRc = 0)
                  => \E a \in Artifacts(ext) : a \in cwdFiles
           /\ OtherFiles \subseteq cwdFiles \/ cwdFiles \cap OtherFiles = {KeptFile}

\* A run aborted at its last directory after a successful compilation.
C20_Witness ==
    /\ pc = "exited"
    /\ error = "TCNotFound"
    /\ compileCount = 1
    /\ compileRc = 0
    /\ idx = NumCases
    /\ cleanupCount = 0
    /\ \E a \in Artifacts(ext) : a \in cwdFiles

\* C16: with a deterministic submission and checker, a second run started
\* after a completed run completes with the same ordered verdict list; a
\* completed run leaves every input fixture in its directory with its
\* content, and no run changes an expected-output fixture.
C16_Idempotent ==
    /\ [](run = 2 => error = "none")
    /\ []((run = 2 /\ pc \in {"print", "cleanup", "return", "exited"})
             => verdict_list = firstVerdicts)
    /\ []((pc = "exited" /\ error = "none")
             => \A d \in Dirs : /\ tcInput[d] = File(InputData(d))
                                /\ tcExpected[d].present
                                /\ ~StagedBy(d))
    /\ [][tcExpected' = tcExpected]_vars

\* The second run in manual mode has ended with the verdicts AC for the first
\* directory and WA for the last, as the first run did.
C16_Witness ==
    /\ run = 2
    /\ pc = "exited"
    /\ error = "none"
    /\ input_strat = "manual"
    /\ numDirs = NumCases
    /\ Len(verdict_list) = NumCases
    /\ verdict_list[1][2] = "AC"
    /\ verdict_list[NumCases][2] = "WA"
    /\ verdict_list = firstVerdicts

\* The wait state of the program for each kind of process.
WaitOf(p) ==
    IF p = "compiler" THEN "compile_wait"
    ELSE IF p = "submission" THEN "exec_wait" ELSE "checker_wait"

\* C18: while a spawned compiler, submission or checker has not exited the
\* program is in the wait for it and its only step is the return of that
\* wait; while a submission or checker runs, the directories with a verdict
\* are those before the current one; and when every process exits, every run
\* ends, with all directories judged or with an error.
C18_BlockingAndTermination ==
    /\ [](running # "none" => pc = WaitOf(running))
    /\ [][running # "none" => running' = "none"]_vars
    /\ [](running \in {"submission", "checker"}
             => /\ idx \in Dirs
                /\ Len(verdict_list) = idx - 1
                /\ reported = <<>>)
    /\ <>(/\ pc = "exited"
          /\ running = "none"
          /\ error = "none" => Len(verdict_list) = numDirs)

\* The program waits for the checker of the last directory.
C18_Witness ==
    /\ running = "checker"
    /\ pc = "checker_wait"
    /\ numDirs = NumCases
    /\ idx = NumCases
    /\ Len(verdict_list) = NumCases - 1

\* C21 as stated: in manual mode, a file that was in the working directory
\* under the input fixture's name or under the name output.user.out before
\* the first directory was processed is there with the same content once
\* that directory has its verdict.
C21_StagingKeepsOlderFiles ==
    (input_strat = "manual" /\ run = 1 /\ pc = "append" /\ idx = 1)
        => /\ cwdBefore.input.present => cwdInput = cwdBefore.input
           /\ cwdBefore.output.present => cwdUserOut = cwdBefore.output

====
